---- MODULE Spec2Model ----
(***************************************************************************)
(* A model of RsaCtfTool's attack modules:                                 *)
(*   attacks/multi_keys/hastads.py      (Hastad broadcast attack, CRT,     *)
(*                                       modular inverse, integer root)    *)
(*   attacks/single_key/boneh_durfee.py (lattice pruning, d recovery)      *)
(*   attacks/single_key/factordb.py     (factor database lookup)           *)
(*   attacks/single_key/smallfraction.py(external factorisation tool)      *)
(* Python integers are unbounded; every value computed here stays far      *)
(* below TLC's integer range for the bounds chosen.                        *)
(***************************************************************************)
EXTENDS Integers, Sequences, FiniteSets, TLC

VARIABLES pc, arg, ret, publickeys, cipher, publickey, ext, sageresult, BB, monomials, current, removed

vars == <<pc, arg, ret, publickeys, cipher, publickey, ext, sageresult, BB, monomials, current, removed>>

(***************************************************************************)
(* Python values.  None is the empty tuple and a present value x is <<x>>, *)
(* so that an optional value can always be compared.  A call ends either   *)
(* by returning a value or by raising an exception.                        *)
(***************************************************************************)
None == <<>>

Some(x) == <<x>>

NoCall == [kind |-> "pending", val |-> None, exc |-> "none"]

Return(v) == [kind |-> "return", val |-> Some(v), exc |-> "none"]

Raise(e) == [kind |-> "raise", val |-> None, exc |-> e]

Returned(r) == r.kind = "return"

Raised(r) == r.kind = "raise"

Val(r) == r.val[1]

(***************************************************************************)
(* Bounds of the arithmetic scenarios.                                     *)
(***************************************************************************)
MaxA == 24

MaxB == 24

MaxRoot == 17

MaxK == 3

MaxM == 40

MaxKeys == 3

\* moduli offered to chinese_remainder: coprime pairs and pairs sharing a factor
CrtModuli == {2, 3, 4, 5, 7, 9}

(***************************************************************************)
(* Mathematical reference notions used by the properties.                  *)
(***************************************************************************)
RECURSIVE GCD(_, _)
GCD(a, b) == IF b = 0 THEN a ELSE GCD(b, a % b)

RECURSIVE Pow(_, _)
Pow(b, k) == IF k = 0 THEN 1 ELSE b * Pow(b, k - 1)

RECURSIVE Product(_)
Product(s) == IF Len(s) = 0 THEN 1 ELSE Head(s) * Product(Tail(s))

PairwiseCoprime(n) == \A i, j \in 1..Len(n) : i < j => GCD(n[i], n[j]) = 1

SeqsUpTo(S, k) == UNION {[1..l -> S] : l \in 0..k}

(***************************************************************************)
(* hastads.py: mul_inv(a, b)                                               *)
(***************************************************************************)
\* the while loop of mul_inv: a // b raises ZeroDivisionError when b is 0
RECURSIVE mul_inv_loop(_, _, _, _)
mul_inv_loop(a, b, x0, x1) ==
    IF a > 1
    THEN IF b = 0
         THEN Raise("ZeroDivisionError")
         ELSE mul_inv_loop(b, a % b, x1 - (a \div b) * x0, x0)
    ELSE Return(x1)

mul_inv(a, b) ==
    IF b = 1
    THEN Return(1)
    ELSE LET r == mul_inv_loop(a, b, 0, 1)
         IN  IF Raised(r) THEN r
             ELSE IF Val(r) < 0 THEN Return(Val(r) + b) ELSE r

(***************************************************************************)
(* hastads.py: chinese_remainder(n, a)                                     *)
(***************************************************************************)
\* the for loop over zip(n, a), from position i with the running sum
RECURSIVE crt_loop(_, _, _, _, _)
crt_loop(n, a, prod, i, sum) ==
    IF i > Len(n) \/ i > Len(a)
    THEN Return(sum)
    ELSE IF n[i] = 0
         THEN Raise("ZeroDivisionError")
         ELSE LET p   == prod \div n[i]
                  inv == mul_inv(p, n[i])
              IN  IF Raised(inv) THEN inv
                  ELSE crt_loop(n, a, prod, i + 1, sum + a[i] * Val(inv) * p)

\* a plausible slip: the accumulated sum is returned without the reduction mod prod
chinese_remainder_unreduced(n, a) ==
    IF Len(n) = 0
    THEN Raise("TypeError")
    ELSE crt_loop(n, a, Product(n), 1, 0)

chinese_remainder(n, a) ==
    IF Len(n) = 0
    THEN Raise("TypeError")
    ELSE LET prod == Product(n)
             s    == crt_loop(n, a, prod, 1, 0)
         IN  IF Raised(s) THEN s
             ELSE IF prod = 0 THEN Raise("ZeroDivisionError")
             ELSE Return(Val(s) % prod)

(***************************************************************************)
(* hastads.py: find_invpow(x, n)                                           *)
(***************************************************************************)
\* first loop: double high until high ** n >= x
RECURSIVE invpow_high(_, _, _)
invpow_high(x, n, high) ==
    IF Pow(high, n) < x THEN invpow_high(x, n, 2 * high) ELSE high

\* second loop: bisection between low and high; mid is the last midpoint
RECURSIVE invpow_bisect(_, _, _, _, _)
invpow_bisect(x, n, low, high, mid) ==
    IF low < high
    THEN LET m == (low + high) \div 2
         IN  IF low < m /\ Pow(m, n) < x
             THEN invpow_bisect(x, n, m, high, m)
             ELSE IF high > m /\ Pow(m, n) > x
             THEN invpow_bisect(x, n, low, m, m)
             ELSE m
    ELSE mid + 1

find_invpow(x, n) ==
    LET high == invpow_high(x, n, 1)
    IN  invpow_bisect(x, n, high \div 2, high, 0)

(***************************************************************************)
(* The arithmetic scenarios: one call of one function on drawn inputs.     *)
(*   mul_inv:            arg = <<a, b>>                                    *)
(*   find_invpow:        arg = <<x, k>>, called on x ** k                  *)
(*   chinese_remainder:  arg = <<n, m>>, residues a_i = m mod n_i          *)
(***************************************************************************)
Residues(n, m) == [i \in 1..Len(n) |-> m % n[i]]

Idle ==
    /\ publickeys = None /\ cipher = None /\ publickey = None /\ ext = None
    /\ sageresult = None /\ BB = None /\ monomials = None /\ current = 0 /\ removed = None

InitArith ==
    /\ ret = NoCall
    /\ Idle
    /\ \/ pc = "mul_inv" /\ arg \in (0..MaxA) \X (1..MaxB)
       \/ pc = "find_invpow" /\ arg \in (0..MaxRoot) \X (1..MaxK)
       \/ pc = "chinese_remainder"
          /\ arg \in (SeqsUpTo(CrtModuli, MaxKeys) \ {<<>>}) \X (0..MaxM)

Call_mul_inv ==
    /\ pc = "mul_inv"
    /\ ret' = mul_inv(arg[1], arg[2])
    /\ pc' = "done_mul_inv"
    /\ UNCHANGED <<arg, publickeys, cipher, publickey, ext, sageresult, BB, monomials, current, removed>>

Call_find_invpow ==
    /\ pc = "find_invpow"
    /\ ret' = Return(find_invpow(Pow(arg[1], arg[2]), arg[2]))
    /\ pc' = "done_find_invpow"
    /\ UNCHANGED <<arg, publickeys, cipher, publickey, ext, sageresult, BB, monomials, current, removed>>

Call_chinese_remainder ==
    /\ pc = "chinese_remainder"
    /\ ret' = chinese_remainder(arg[1], Residues(arg[1], arg[2]))
    /\ pc' = "done_chinese_remainder"
    /\ UNCHANGED <<arg, publickeys, cipher, publickey, ext, sageresult, BB, monomials, current, removed>>

NextArith == Call_mul_inv \/ Call_find_invpow \/ Call_chinese_remainder

SpecArith == InitArith /\ [][NextArith]_vars

(***************************************************************************)
(* Properties of the arithmetic                                            *)
(***************************************************************************)

\* C2: integer root round trip: find_invpow(x^k, k) returns exactly x for
\* every x >= 0 and k >= 1 (stated as claimed; the code misses x = 1 and
\* every x that is a power of two)
C2_RoundTrip ==
    pc = "done_find_invpow" => (Returned(ret) /\ Val(ret) = arg[1])

\* C3: CRT round trip: for pairwise-coprime moduli n_i > 1 and residues
\* a_i = m mod n_i, chinese_remainder returns m mod prod(n_i), in [0, prod)
C3_CrtRoundTrip ==
    (pc = "done_chinese_remainder" /\ PairwiseCoprime(arg[1]))
        => /\ Returned(ret)
           /\ Val(ret) = arg[2] % Product(arg[1])
           /\ Val(ret) >= 0 /\ Val(ret) < Product(arg[1])

\* C3 witness: three coprime moduli combined for an m above the first modulus
C3_Witness ==
    /\ pc = "done_chinese_remainder"
    /\ Len(arg[1]) = 3 /\ PairwiseCoprime(arg[1])
    /\ arg[2] > arg[1][1]
    /\ Returned(ret) /\ Val(ret) = arg[2]

\* C4: modular inverse is normalised: for a >= 1, m >= 1, gcd(a, m) = 1
\* mul_inv returns r with 0 <= r < m and a*r = 1 (mod m) (stated as claimed;
\* the code returns 1 for m = 1)
C4_Normalized ==
    (pc = "done_mul_inv" /\ arg[1] >= 1 /\ GCD(arg[1], arg[2]) = 1)
        => /\ Returned(ret)
           /\ Val(ret) >= 0 /\ Val(ret) < arg[2]
           /\ (arg[1] * Val(ret)) % arg[2] = 1 % arg[2]

\* C5: modular inverse rejects non-invertible input: for a >= 0, m > 1 with
\* gcd(a, m) /= 1, mul_inv fails and never returns an integer (stated as
\* claimed; the code returns 1 for a = 0)
C5_Rejects ==
    (pc = "done_mul_inv" /\ arg[2] > 1 /\ GCD(arg[1], arg[2]) # 1)
        => Raised(ret)

(***************************************************************************)
(* Bytes, as sequences of 0..255, and hexadecimal text, as digit sequences *)
(***************************************************************************)
\* int.from_bytes(b, byteorder="big")
RECURSIVE int_from_bytes(_)
int_from_bytes(b) ==
    IF Len(b) = 0 THEN 0
    ELSE int_from_bytes(SubSeq(b, 1, Len(b) - 1)) * 256 + b[Len(b)]

\* hex(x)[2:] for x >= 0: the base-16 digits, most significant first
RECURSIVE hex(_)
hex(x) == IF x < 16 THEN <<x>> ELSE hex(x \div 16) \o <<x % 16>>

\* bytes.fromhex(h): two digits per byte; an odd number of digits is refused
bytes_fromhex(h) ==
    IF Len(h) % 2 = 1
    THEN Raise("ValueError")
    ELSE Return([i \in 1..(Len(h) \div 2) |-> 16 * h[2 * i - 1] + h[2 * i]])

\* the minimal big-endian encoding of m >= 1 (no leading zero byte)
RECURSIVE MinimalBytes(_)
MinimalBytes(m) == IF m < 256 THEN <<m>> ELSE MinimalBytes(m \div 256) \o <<m % 256>>

RECURSIVE PowMod(_, _, _)
PowMod(b, k, n) == IF k = 0 THEN 1 % n ELSE (b * PowMod(b, k - 1, n)) % n

(***************************************************************************)
(* hastads.py: attack(attack_rsa_obj, publickeys, cipher)                  *)
(* publickeys is [islist, items]: the argument may be a list of keys or a  *)
(* single key object; a key is [n, e]; cipher is a list of byte strings.   *)
(***************************************************************************)
NoResult == [priv |-> None, plain |-> None]

UsableKey(k) == k.e < 11

hastads_attack(pks, ciph) ==
    IF ~pks.islist
    THEN Return(NoResult)
    ELSE LET c      == [i \in 1..Len(ciph) |-> int_from_bytes(ciph[i])]
             usable == SelectSeq(pks.items, UsableKey)
             n      == [i \in 1..Len(usable) |-> usable[i].n]
             e      == {usable[i].e : i \in 1..Len(usable)}
         IN  IF Cardinality(e) # 1
             THEN Return(NoResult)
             ELSE LET e1     == CHOOSE x \in e : TRUE
                      result == chinese_remainder(n, c)
                  IN  IF Raised(result) THEN result
                      ELSE LET unciphered == bytes_fromhex(hex(find_invpow(Val(result), e1)))
                           IN  IF Raised(unciphered) THEN unciphered
                               ELSE Return([priv |-> None, plain |-> Some(Val(unciphered))])

(***************************************************************************)
(* The Hastad scenario: up to HastadMaxKeys keys, a message m (kept in     *)
(* arg), and either one ciphertext per key, c_i = m^e_i mod n_i, or none.  *)
(***************************************************************************)
HastadMaxKeys == 3

MaxMsg == 34

\* 323 = 17 * 19 is large enough for a two-digit message under a single key
HastadModuli == {10, 11, 13, 323}

HastadExps == {2, 3, 11}

HastadKeys == [n : HastadModuli, e : HastadExps]

Encrypt(keys, m) == [i \in 1..Len(keys) |-> MinimalBytes(PowMod(m, keys[i].e, keys[i].n))]

InitHastad ==
    /\ pc = "hastads"
    /\ ret = NoCall
    /\ arg \in 0..MaxMsg
    /\ \/ publickeys \in [islist : {TRUE}, items : SeqsUpTo(HastadKeys, HastadMaxKeys)]
       \/ publickeys \in [islist : {FALSE}, items : [1..1 -> HastadKeys]]
    /\ cipher \in {Encrypt(publickeys.items, arg), <<>>}
    /\ publickey = None /\ ext = None /\ sageresult = None
    /\ BB = None /\ monomials = None /\ current = 0 /\ removed = None

Call_hastads ==
    /\ pc = "hastads"
    /\ ret' = hastads_attack(publickeys, cipher)
    /\ pc' = "done_hastads"
    /\ UNCHANGED <<arg, publickeys, cipher, publickey, ext, sageresult, BB, monomials, current, removed>>

NextHastad == Call_hastads

SpecHastad == InitHastad /\ [][NextHastad]_vars

Usable(pks) == SelectSeq(pks.items, UsableKey)

Moduli(keys) == [i \in 1..Len(keys) |-> keys[i].n]

Exponents(keys) == {keys[i].e : i \in 1..Len(keys)}

\* C1: Hastad end to end: for keys that all carry one exponent e < 11 and
\* pairwise-coprime moduli, m >= 1 with m^e < prod(n_i) and c_i = m^e mod n_i,
\* attack returns (None, plaintext) with plaintext the minimal big-endian
\* bytes of m (stated as claimed; the code fails for m with an odd number of
\* hexadecimal digits and for m a power of two)
C1_EndToEnd ==
    (/\ pc = "done_hastads"
     /\ publickeys.islist /\ Len(publickeys.items) >= 1
     /\ \A i \in 1..Len(publickeys.items) : UsableKey(publickeys.items[i])
     /\ Cardinality(Exponents(publickeys.items)) = 1
     /\ PairwiseCoprime(Moduli(publickeys.items))
     /\ arg >= 1
     /\ \A e \in Exponents(publickeys.items) :
            Pow(arg, e) < Product(Moduli(publickeys.items))
     /\ cipher = Encrypt(publickeys.items, arg))
        => ret = Return([priv |-> None, plain |-> Some(MinimalBytes(arg))])

\* C6: Hastad inapplicable input: attack returns (None, None) whenever the
\* keys with e < 11 do not share one exponent and whenever fewer than two
\* keys with e < 11 are supplied (stated as claimed; with exactly one usable
\* key the code goes on to the CRT and the root)
C6_Inapplicable ==
    (/\ pc = "done_hastads"
     /\ publickeys.islist
     /\ \/ Cardinality(Exponents(Usable(publickeys))) # 1
        \/ Len(Usable(publickeys)) < 2)
        => ret = Return(NoResult)

(***************************************************************************)
(* hastads.py, lines 58-74: the two lists attack hands to                  *)
(* chinese_remainder, and the pairs its zip(n, a) forms from them.         *)
(***************************************************************************)
\* c: every ciphertext, converted, in the order supplied (lines 58-60)
hastads_c(ciph) == [i \in 1..Len(ciph) |-> int_from_bytes(ciph[i])]

\* n: the moduli of the keys with e < 11 only, in the order supplied (lines 62-67)
hastads_n(pks) == Moduli(Usable(pks))

\* zip(n, a): position by position, as long as the shorter list
zip(n, a) ==
    [i \in 1..(IF Len(n) < Len(a) THEN Len(n) ELSE Len(a)) |-> [n_i |-> n[i], a_i |-> a[i]]]

\* the position in publickeys of the key that supplied the i-th modulus of n
KeyIndex(pks, i) ==
    CHOOSE k \in 1..Len(pks.items) :
        /\ UsableKey(pks.items[k])
        /\ Cardinality({j \in 1..k : UsableKey(pks.items[j])}) = i

\* C11: Hastad key/ciphertext alignment: for keys and equally many
\* ciphertexts, every modulus n_i handed to chinese_remainder is paired with
\* the ciphertext of the same public key, also when keys with e >= 11 are
\* filtered out (stated as claimed; the code filters n but not c, so after a
\* filtered key every modulus meets the ciphertext of an earlier key)
C11_Alignment ==
    (/\ pc = "done_hastads"
     /\ publickeys.islist
     /\ Len(cipher) = Len(publickeys.items)
     /\ Cardinality(Exponents(Usable(publickeys))) = 1)
        => LET pairs == zip(hastads_n(publickeys), hastads_c(cipher))
           IN  \A i \in 1..Len(pairs) :
                   /\ pairs[i].n_i = publickeys.items[KeyIndex(publickeys, i)].n
                   /\ pairs[i].a_i = int_from_bytes(cipher[KeyIndex(publickeys, i)])

(***************************************************************************)
(* Collaborators of the single-key attacks that live outside these files.  *)
(***************************************************************************)
\* a private key; absent fields are None
PrivKey(n, e, d, p, q) == [n |-> n, e |-> e, d |-> d, p |-> p, q |-> q]

\* lib.keys_wrapper.PrivateKey(p, q, e, n): refuses factors whose product is not n
PrivateKey_pq(p, q, e, n) ==
    IF p * q # n
    THEN Raise("ValidationError")
    ELSE Return(PrivKey(n, e, None, Some(p), Some(q)))

\* lib.keys_wrapper.PrivateKey(e=, n=, d=)
PrivateKey_d(e, n, d) == Return(PrivKey(n, e, Some(d), None, None))

\* lib.rsalibnum.invmod(a, m): the inverse in [0, m), refused when gcd(a, m) /= 1
invmod(a, m) ==
    IF m >= 1 /\ GCD(a % m, m) = 1
    THEN Return(CHOOSE x \in 0..(m - 1) : (a * x) % m = 1 % m)
    ELSE Raise("NotInvertibleError")

IsPrime(p) == p > 1 /\ \A k \in 2..(p - 1) : p % k # 0

LCM(a, b) == (a * b) \div GCD(a, b)

\* Crypto.PublicKey.RSA.construct((n, e, d)): derives p and q from a valid
\* private exponent and raises ValueError for any other d
RSA_construct(n, e, d) ==
    LET good == {p \in 2..n : /\ n % p = 0 /\ IsPrime(p) /\ IsPrime(n \div p)
                              /\ p < n \div p
                              /\ 1 < d /\ d < n
                              /\ (e * d) % LCM(p - 1, (n \div p) - 1) = 1}
    IN  IF good = {}
        THEN Raise("ValueError")
        ELSE LET p == CHOOSE x \in good : TRUE
             IN  Return([p |-> p, q |-> n \div p])

(***************************************************************************)
(* factordb.py: solveforp(equation)                                        *)
(* Text matched by [0-9\^\-]+ is a sequence of tokens: a run of digits     *)
(* [t |-> "num", v |-> value], a caret or a minus sign.                    *)
(***************************************************************************)
Num(v) == [t |-> "num", v |-> v]

Caret == [t |-> "^", v |-> 0]

Minus == [t |-> "-", v |-> 0]

Occurrences(text, t) == {i \in 1..Len(text) : text[i].t = t}

\* str.isdigit()
isdigit(text) == Len(text) = 1 /\ text[1].t = "num"

\* int(text): digits with an optional sign
int_of(text) ==
    IF Len(text) = 1 /\ text[1].t = "num" THEN Return(text[1].v)
    ELSE IF Len(text) = 2 /\ text[1].t = "-" /\ text[2].t = "num" THEN Return(0 - text[2].v)
    ELSE Raise("ValueError")

\* every exception inside solveforp is turned into FactorizationError:
\* k, j = split("^") needs exactly one caret (j is unbound without one),
\* j, sub = j.split("-") needs exactly one minus (sub is unbound without one)
solveforp(equation) ==
    LET carets == Occurrences(equation, "^")
    IN  IF Cardinality(carets) # 1
        THEN Raise("FactorizationError")
        ELSE LET c      == CHOOSE i \in carets : TRUE
                 k      == SubSeq(equation, 1, c - 1)
                 j0     == SubSeq(equation, c + 1, Len(equation))
                 minus  == Occurrences(j0, "-")
             IN  IF Cardinality(minus) # 1
                 THEN Raise("FactorizationError")
                 ELSE LET d   == CHOOSE i \in minus : TRUE
                          j   == SubSeq(j0, 1, d - 1)
                          sub == SubSeq(j0, d + 1, Len(j0))
                          ik  == int_of(k)
                          ij  == int_of(j)
                          is  == int_of(sub)
                      IN  IF Raised(ik) \/ Raised(ij) \/ Raised(is)
                          THEN Raise("FactorizationError")
                          ELSE Return(Pow(Val(ik), Val(ij)) - Val(is))

(***************************************************************************)
(* factordb.py: attack(attack_rsa_obj, publickey, cipher)                  *)
(* The service's answers are the input x:                                  *)
(*   x.get    outcome of the query for n                                   *)
(*   x.ids    number of index.php?id= links found in the answer            *)
(*   x.prime  number of <td>P</td> cells found in the answer               *)
(*   x.page_p, x.page_q  outcome of fetching a factor's page: the list of  *)
(*            value="..." matches, or a failed request                     *)
(* The result is [ret, publickey]: what attack returns and the key after.  *)
(***************************************************************************)
Success(priv) == [priv |-> Some(priv), plain |-> None]

\* regex.findall(page.text)[0], then int(...) or solveforp(...)
read_factor(page) ==
    IF Raised(page) THEN page
    ELSE IF Len(Val(page)) = 0 THEN Raise("IndexError")
    ELSE LET key == Val(page)[1]
         IN  IF isdigit(key) THEN Return(key[1].v) ELSE solveforp(key)

\* lines 69-78: the check for an unfactored n and the construction of the key
factordb_finish(pk) ==
    LET p == pk.p[1]
        q == pk.q[1]
    IN  IF p = q /\ q = pk.n
        THEN [ret |-> Return(NoResult), publickey |-> pk]
        ELSE LET priv_key == PrivateKey_pq(p, q, pk.e, pk.n)
             IN  IF Raised(priv_key)
                 THEN [ret |-> Return(NoResult), publickey |-> pk]
                 ELSE [ret |-> Return(Success(Val(priv_key))), publickey |-> pk]

\* lines 55-67: p is stored as soon as it is read, before q is looked up
factordb_factors(pk, x) ==
    IF x.ids < 2
    THEN [ret |-> Return(NoResult), publickey |-> pk]
    ELSE LET key_p == read_factor(x.page_p)
         IN  IF Raised(key_p)
             THEN [ret |-> Return(NoResult), publickey |-> pk]
             ELSE LET pk1 == [pk EXCEPT !.p = Some(Val(key_p))]
                  IN  IF x.ids < 3
                      THEN [ret |-> Return(NoResult), publickey |-> pk1]
                      ELSE LET key_q == read_factor(x.page_q)
                           IN  IF Raised(key_q)
                               THEN [ret |-> Return(NoResult), publickey |-> pk1]
                               ELSE factordb_finish([pk1 EXCEPT !.q = Some(Val(key_q))])

factordb_attack(pk, x) ==
    IF Raised(x.get)
    THEN [ret |-> Return(NoResult), publickey |-> pk]
    ELSE IF x.ids = 2 /\ x.prime = 1
    THEN LET d == invmod(pk.e, pk.n - 1)
         IN  IF Raised(d)
             THEN [ret |-> Return(NoResult), publickey |-> pk]
             ELSE [ret |-> Return(Success(Val(PrivateKey_d(pk.e, pk.n, Val(d))))),
                   publickey |-> pk]
    ELSE factordb_factors(pk, x)

(***************************************************************************)
(* smallfraction.py: attack(attack_rsa_obj, publickey, cipher)             *)
(* tool is the outcome of subprocess.check_output: the text printed by the *)
(* external program, or the exception of a failed or missing program.      *)
(* The result is [ret, publickey, sageresult].                             *)
(***************************************************************************)
smallfraction_attack(pk, tool) ==
    IF Raised(tool)
    THEN IF tool.exc \in {"CalledProcessError", "TimeoutExpired"}
         THEN [ret |-> Return(NoResult), publickey |-> pk, sageresult |-> None]
         ELSE [ret |-> tool, publickey |-> pk, sageresult |-> None]
    ELSE LET parsed == int_of(Val(tool))
         IN  IF Raised(parsed)
             THEN [ret |-> parsed, publickey |-> pk, sageresult |-> None]
             ELSE IF Val(parsed) > 0
             THEN LET p        == Val(parsed)
                      q        == pk.n \div p
                      pk2      == [pk EXCEPT !.p = Some(p), !.q = Some(q)]
                      priv_key == PrivateKey_pq(p, q, pk.e, pk.n)
                  IN  IF Raised(priv_key)
                      THEN [ret |-> priv_key, publickey |-> pk2, sageresult |-> Some(p)]
                      ELSE [ret |-> Return(Success(Val(priv_key))), publickey |-> pk2,
                            sageresult |-> Some(p)]
             ELSE [ret |-> Return(NoResult), publickey |-> pk, sageresult |-> Some(Val(parsed))]

(***************************************************************************)
(* boneh_durfee.py: factor(N, e) and attack(attack_rsa_obj, publickey, ..) *)
(* bd is the outcome of the lattice computation boneh_durfee(...): a pair  *)
(* [solx, soly] ((0, 0) when it fails), IndexError when the first          *)
(* polynomial has no root for x, or OverflowError from the float powers.   *)
(***************************************************************************)
\* int(a / b) for b > 0: the exact quotient truncated toward zero
int_div(a, b) == IF a >= 0 THEN a \div b ELSE 0 - ((0 - a) \div b)

\* pol = 1 + x * (A + y) with A = int((N + 1) / 2)
pol(N, x, y) == 1 + x * (((N + 1) \div 2) + y)

\* the value returned is d, or None when solx <= 0
factor(N, e, bd) ==
    IF Raised(bd) THEN bd
    ELSE IF Val(bd).solx > 0
    THEN Return(Some(int_div(pol(N, Val(bd).solx, Val(bd).soly), e)))
    ELSE Return(None)

boneh_durfee_attack(pk, bd) ==
    LET sage == factor(pk.n, pk.e, bd)
    IN  IF Raised(sage)
        THEN IF sage.exc = "OverflowError"
             THEN [ret |-> Return(NoResult), publickey |-> pk, sageresult |-> None]
             ELSE [ret |-> sage, publickey |-> pk, sageresult |-> None]
        ELSE IF Val(sage) # None
        THEN LET tmp_priv == RSA_construct(pk.n, pk.e, Val(sage)[1])
             IN  IF Raised(tmp_priv)
                 THEN [ret |-> tmp_priv, publickey |-> pk, sageresult |-> Val(sage)]
                 ELSE LET pk2 == [pk EXCEPT !.p = Some(Val(tmp_priv).p),
                                            !.q = Some(Val(tmp_priv).q)]
                          privatekey == PrivateKey_pq(Val(tmp_priv).p, Val(tmp_priv).q,
                                                      pk.e, pk.n)
                      IN  IF Raised(privatekey)
                          THEN [ret |-> privatekey, publickey |-> pk2, sageresult |-> Val(sage)]
                          ELSE [ret |-> Return(Success(Val(privatekey))), publickey |-> pk2,
                                sageresult |-> Val(sage)]
        ELSE [ret |-> Return(NoResult), publickey |-> pk, sageresult |-> None]

(***************************************************************************)
(* The single-key scenario: one attack called on one public key whose      *)
(* factors are not yet attached; arg keeps the key as it was at the call.  *)
(***************************************************************************)
KeyModuli == {7, 35}

KeyExps == {5, 7}

MaxIds == 4

MaxPrimeCells == 2

MaxSol == 2

Equations ==
    { <<Num(5)>>, <<Num(7)>>, <<Num(35)>>,
      <<Num(2), Caret, Num(3), Minus, Num(1)>>,
      <<Num(2), Caret, Num(3), Minus, Num(3)>>,
      <<Num(2), Caret, Num(3)>>,
      <<Num(2), Caret, Num(3), Minus, Num(1), Minus, Num(1)>> }

Pages == {Raise("ConnectionError"), Return(<<>>)} \cup {Return(<<t>>) : t \in Equations}

FactordbAnswers ==
    [get : {Return(<<>>), Raise("ConnectionError")}, ids : 0..MaxIds,
     prime : 0..MaxPrimeCells, page_p : Pages, page_q : Pages]

ToolOutcomes ==
    {Raise("CalledProcessError"), Raise("TimeoutExpired"), Raise("FileNotFoundError")}
        \cup {Return(t) : t \in {<<Num(0)>>, <<Num(4)>>, <<Num(5)>>, <<Num(7)>>,
                                 <<Minus, Num(1)>>, <<Minus>>, <<>>}}

LatticeOutcomes ==
    {Raise("IndexError"), Raise("OverflowError")}
        \cup {Return(xy) : xy \in [solx : (0 - 1)..MaxSol, soly : {0 - 6, 0 - 5, 0 - 2, 0}]}

InitSingle ==
    /\ ret = NoCall
    /\ publickey \in [n : KeyModuli, e : KeyExps, p : {None}, q : {None}]
    /\ arg = publickey
    /\ \/ pc = "factordb" /\ ext \in FactordbAnswers
       \/ pc = "smallfraction" /\ ext \in ToolOutcomes
       \/ pc = "boneh_durfee" /\ ext \in LatticeOutcomes
    /\ publickeys = None /\ cipher = None /\ sageresult = None
    /\ BB = None /\ monomials = None /\ current = 0 /\ removed = None

Call_factordb ==
    /\ pc = "factordb"
    /\ LET r == factordb_attack(publickey, ext)
       IN  ret' = r.ret /\ publickey' = r.publickey
    /\ pc' = "done_factordb"
    /\ UNCHANGED <<arg, publickeys, cipher, ext, sageresult, BB, monomials, current, removed>>

Call_smallfraction ==
    /\ pc = "smallfraction"
    /\ LET r == smallfraction_attack(publickey, ext)
       IN  ret' = r.ret /\ publickey' = r.publickey /\ sageresult' = r.sageresult
    /\ pc' = "done_smallfraction"
    /\ UNCHANGED <<arg, publickeys, cipher, ext, BB, monomials, current, removed>>

Call_boneh_durfee ==
    /\ pc = "boneh_durfee"
    /\ LET r == boneh_durfee_attack(publickey, ext)
       IN  ret' = r.ret /\ publickey' = r.publickey /\ sageresult' = r.sageresult
    /\ pc' = "done_boneh_durfee"
    /\ UNCHANGED <<arg, publickeys, cipher, ext, BB, monomials, current, removed>>

NextSingle == Call_factordb \/ Call_smallfraction \/ Call_boneh_durfee

SpecSingle == InitSingle /\ [][NextSingle]_vars

AttackDone == pc \in {"done_hastads", "done_factordb", "done_smallfraction", "done_boneh_durfee"}

\* C7: Boneh-Durfee integrality check: when the lattice step returns (x0, y0)
\* with x0 > 0 and 1 + x0*(A + y0) not divisible by e, factor yields no d and
\* attack returns (None, None) (stated as claimed; the code truncates the
\* quotient and hands it on as d)
C7_Integrality ==
    (/\ pc = "done_boneh_durfee"
     /\ Returned(ext) /\ Val(ext).solx > 0
     /\ pol(arg.n, Val(ext).solx, Val(ext).soly) % arg.e # 0)
        => (sageresult = None /\ ret = Return(NoResult))

\* C8: the public key is written only on success: whenever a single-key
\* attack returns (None, None) or fails, p and q of the caller's key are as
\* before the call (stated as claimed; factordb stores p before q is
\* known and keeps both after rejecting p = q = n)
C8_WrittenOnlyOnSuccess ==
    (/\ pc \in {"done_factordb", "done_smallfraction", "done_boneh_durfee"}
     /\ (Raised(ret) \/ ret = Return(NoResult)))
        => (publickey.p = arg.p /\ publickey.q = arg.q)

\* C10: attacks never raise for failure: every attack entry point ends by
\* returning a (private_key, plaintext) pair (stated as claimed; Hastad
\* raises on an empty ciphertext list, on moduli sharing a factor and on an
\* odd number of hexadecimal digits)
C10_NeverRaise == AttackDone => Returned(ret)

(***************************************************************************)
(* boneh_durfee.py: remove_unhelpful(BB, monomials, bound, current)        *)
(* A matrix is a function from row index to row, a row a function from     *)
(* column index to entry, both indexed from 0 as in the source; monomials  *)
(* is indexed the same way.                                                *)
(***************************************************************************)
dimension_min == 7

abs(x) == IF x < 0 THEN 0 - x ELSE x

\* BB.dimensions()[0]
dimensions(M) == Cardinality(DOMAIN M)

\* the r-th index that is left once the indices in S are taken out
Kept(dom, S, r) == CHOOSE k \in dom \ S : Cardinality({x \in dom \ S : x < k}) = r

\* list.pop for each index in S (from the higher index to the lower)
pop(f, S) ==
    [r \in 0..(Cardinality(DOMAIN f \ S) - 1) |-> f[Kept(DOMAIN f, S, r)]]

\* BB.delete_columns(S)
delete_columns(M, S) == [r \in DOMAIN M |-> pop(M[r], S)]

\* BB.delete_rows(S)
delete_rows(M, S) == pop(M, S)

\* the rows jj > ii with BB[jj, ii] != 0
affected(M, ii) == {jj \in DOMAIN M : jj > ii /\ M[jj][ii] # 0}

\* level 0: an unhelpful vector that affects no other vector
level0(M, bound, ii) == M[ii][ii] >= bound /\ affected(M, ii) = {}

\* a plausible slip: the affected vector is not checked for vectors it affects
level1_shallow(M, bound, ii) ==
    /\ M[ii][ii] >= bound
    /\ Cardinality(affected(M, ii)) = 1
    /\ LET affected_vector_index == CHOOSE jj \in affected(M, ii) : TRUE
       IN  abs(bound - M[affected_vector_index][affected_vector_index])
               < abs(bound - M[ii][ii])

\* level 1: it affects exactly one vector, which affects no vector itself and
\* is further from the bound than the unhelpful one is
level1(M, bound, ii) ==
    /\ M[ii][ii] >= bound
    /\ Cardinality(affected(M, ii)) = 1
    /\ LET affected_vector_index == CHOOSE jj \in affected(M, ii) : TRUE
       IN  /\ affected(M, affected_vector_index) = {}
           /\ abs(bound - M[affected_vector_index][affected_vector_index])
                  < abs(bound - M[ii][ii])

\* the for loop: the first ii, going down from current, at which something is
\* removed; -1 when the loop ends with nothing removed
first_removal(M, bound, cur) ==
    LET hits == {ii \in 0..cur : level0(M, bound, ii) \/ level1(M, bound, ii)}
    IN  IF hits = {} THEN 0 - 1 ELSE CHOOSE ii \in hits : \A k \in hits : k <= ii

(***************************************************************************)
(* The pruning scenario: remove_unhelpful is called on a lower-triangular  *)
(* Dim x Dim matrix with current = Dim - 1; each step is one invocation    *)
(* of the recursive function.  The trailing FreeRows rows and columns are  *)
(* drawn freely, the leading ones are helpful vectors with a constant      *)
(* term.  removed lists, per deletion, the matrix it was applied to and    *)
(* the indices deleted; arg is the bound.                                  *)
(***************************************************************************)
Dim == 9

FreeRows == 3

PruneBound == 4

DiagValues == {PruneBound - 1, PruneBound, PruneBound + 2}

FreeIndices == (Dim - FreeRows)..(Dim - 1)

FreePairs == {rc \in FreeIndices \X FreeIndices : rc[1] > rc[2]}

Lattice(diag, low) ==
    [r \in 0..(Dim - 1) |->
        [c \in 0..(Dim - 1) |->
            IF r = c THEN (IF r \in FreeIndices THEN diag[r] ELSE PruneBound - 1)
            ELSE IF r < c THEN 0
            ELSE IF <<r, c>> \in FreePairs THEN low[<<r, c>>]
            ELSE IF c = 0 THEN 1
            ELSE 0]]

InitPrune ==
    /\ pc = "remove_unhelpful"
    /\ arg = PruneBound
    /\ \E diag \in [FreeIndices -> DiagValues], low \in [FreePairs -> {0, 1}] :
           BB = Lattice(diag, low)
    /\ monomials = [i \in 0..(Dim - 1) |-> i]
    /\ current = Dim - 1
    /\ removed = <<>>
    /\ ret = NoCall
    /\ publickeys = None /\ cipher = None /\ publickey = None /\ ext = None
    /\ sageresult = None

\* lines 78-79: the end of the recursion
Prune_end ==
    /\ pc = "remove_unhelpful"
    /\ (current = 0 - 1 \/ dimensions(BB) <= dimension_min)
    /\ pc' = "done_remove_unhelpful"
    /\ UNCHANGED <<arg, ret, publickeys, cipher, publickey, ext, sageresult, BB, monomials,
                   current, removed>>

\* lines 98-104: one vector is removed and the function recurses from ii - 1
Prune_level0 ==
    /\ pc = "remove_unhelpful"
    /\ ~(current = 0 - 1 \/ dimensions(BB) <= dimension_min)
    /\ LET ii == first_removal(BB, arg, current)
       IN  /\ ii >= 0
           /\ level0(BB, arg, ii)
           /\ BB' = delete_rows(delete_columns(BB, {ii}), {ii})
           /\ monomials' = pop(monomials, {ii})
           /\ current' = ii - 1
           /\ removed' = Append(removed, [BB |-> BB, rows |-> {ii}])
    /\ UNCHANGED <<pc, arg, ret, publickeys, cipher, publickey, ext, sageresult>>

\* lines 109-127: the vector and the one it affects are removed together
Prune_level1 ==
    /\ pc = "remove_unhelpful"
    /\ ~(current = 0 - 1 \/ dimensions(BB) <= dimension_min)
    /\ LET ii == first_removal(BB, arg, current)
       IN  /\ ii >= 0
           /\ ~level0(BB, arg, ii)
           /\ level1(BB, arg, ii)
           /\ LET affected_vector_index == CHOOSE jj \in affected(BB, ii) : TRUE
              IN  /\ BB' = delete_rows(delete_columns(BB, {affected_vector_index, ii}),
                                       {affected_vector_index, ii})
                  /\ monomials' = pop(monomials, {affected_vector_index, ii})
                  /\ removed' = Append(removed,
                                       [BB |-> BB, rows |-> {affected_vector_index, ii}])
           /\ current' = ii - 1
    /\ UNCHANGED <<pc, arg, ret, publickeys, cipher, publickey, ext, sageresult>>

\* lines 128-129: the loop ends and nothing happened
Prune_nothing ==
    /\ pc = "remove_unhelpful"
    /\ ~(current = 0 - 1 \/ dimensions(BB) <= dimension_min)
    /\ first_removal(BB, arg, current) = 0 - 1
    /\ pc' = "done_remove_unhelpful"
    /\ UNCHANGED <<arg, ret, publickeys, cipher, publickey, ext, sageresult, BB, monomials,
                   current, removed>>

NextPrune == Prune_end \/ Prune_level0 \/ Prune_level1 \/ Prune_nothing

SpecPrune == InitPrune /\ [][NextPrune]_vars

\* C9 as claimed: every removed index i had, when it was removed, a diagonal
\* entry exceeding the bound and no remaining row j > i with BB[j,i] != 0,
\* and no row with a diagonal entry below the bound is ever removed
C9_OnlyUnhelpful ==
    \A k \in 1..Len(removed) :
        \A i \in removed[k].rows :
            LET M == removed[k].BB
            IN  /\ M[i][i] > arg
                /\ \A j \in DOMAIN M \ removed[k].rows : j > i => M[j][i] = 0

\* C9 as amended: every deletion is applied to a matrix of more than
\* dimension_min rows and removes either one index i with BB[i,i] >= bound
\* that no row j > i depends on, or a pair i < j where BB[i,i] >= bound, j is
\* the only row below i with BB[j,i] != 0, no row below j depends on j, and
\* |bound - BB[j,j]| < |bound - BB[i,i]|
C9_RemovalShapes ==
    \A k \in 1..Len(removed) :
        LET M == removed[k].BB
            R == removed[k].rows
        IN  /\ Cardinality(DOMAIN M) > dimension_min
            /\ \/ \E i \in DOMAIN M :
                    /\ R = {i}
                    /\ M[i][i] >= arg
                    /\ \A j \in DOMAIN M : j > i => M[j][i] = 0
               \/ \E i, j \in DOMAIN M :
                    /\ i < j /\ R = {i, j}
                    /\ M[i][i] >= arg
                    /\ M[j][i] # 0
                    /\ \A r \in DOMAIN M : (r > i /\ r # j) => M[r][i] = 0
                    /\ \A r \in DOMAIN M : r > j => M[r][j] = 0
                    /\ abs(arg - M[j][j]) < abs(arg - M[i][i])

\* C9 witness: a pair was removed whose second row was a helpful vector
\* (diagonal below the bound), after an earlier single removal
C9_Witness ==
    /\ pc = "done_remove_unhelpful"
    /\ Len(removed) = 2
    /\ Cardinality(removed[1].rows) = 1
    /\ \E j \in removed[2].rows : removed[2].BB[j][j] < arg
    /\ dimensions(BB) = Dim - 3

====
